---- MODULE Spec2Model ----
(***************************************************************************)
(* The noise-precision nodes of biofam/core/nodes/Tau_nodes.py: TauD_Node  *)
(* (one precision per feature, stored redundantly on every row) and        *)
(* TauN_Node (one precision per sample, stored redundantly on every        *)
(* column), together with the Markov blanket they read.                    *)
(*                                                                         *)
(* Numbers.  The Gamma parameters a and b only ever take values k/2, so    *)
(* every a and b is stored as the integer 2a, 2b ("in halves"); the        *)
(* division by 2. of the update is then exact.  ln, lnGamma and digamma    *)
(* are fixed-point tables in thousandths, indexed by the argument in       *)
(* halves, and the ELBO is carried in units of 1/2000.  Arithmetic is      *)
(* exact; floating-point rounding is not modelled.                         *)
(*                                                                         *)
(* Grids are sequences of rows; a masked array is a record of a data grid  *)
(* and a boolean mask grid of the same shape.                              *)
(***************************************************************************)
EXTENDS Integers, Sequences, FiniteSets, TLC

\* ------------------------------------------------------------- bounds
NumSamples  == 2   \* dim[0]
NumFeatures == 2   \* dim[1]
NumFactors  == 2   \* the rank K of the factor grids
MaxChanges  == 1   \* collaborator changes in one run

dim == <<NumSamples, NumFeatures>>

\* values a collaborator may write into an observation cell
YVals == {3}
\* (E, E2) pairs a factor node may hold in one cell; E2 >= E^2
FactorMoments == {<<1, 2>>}
\* values of the expectation override qE of the constructor (thousandths)
OverrideVals == {250}
\* what a draw from the prior can return (a strictly positive number)
SampleVals == {1}

VARIABLES
    kind,            \* "TauD" or "TauN": the class of the node
    P,               \* self.P.params: [a, b], grids of shape dim, in halves
    Q,               \* self.Q.params: [a, b, mask]; mask is the mask numpy.ma
                     \* attaches to b when b is computed from a masked array
    expectations,    \* self.Q.expectations: [E, lnE], in thousandths
    lbconst,         \* self.lbconst, in units of 1/2000
    axisLen,         \* self.N (TauD_Node) or self.D (TauN_Node)
    samp,            \* self.samp: "None" or the last draw
    markov_blanket,  \* key -> collaborator; "Y" |-> [data, mask],
                     \* factor keys |-> [E, E2]
    ret,             \* the last call: [op, val]; op = "none" after a
                     \* collaborator changed
    changes          \* collaborator changes so far

vars == <<kind, P, Q, expectations, lbconst, axisLen, samp, markov_blanket,
          ret, changes>>

\* ------------------------------------------------------------- numpy
\* TLC keeps [x \in S |-> e] unevaluated and evaluates e again at every
\* application; Eager(f) is f with its values computed once.
Eager(f) == f @@ <<>>

Rows(G) == Len(G)
Cols(G) == Len(G[1])

RECURSIVE SumTo(_, _)
\* f[1] + ... + f[n]
SumTo(f, n) == IF n = 0 THEN 0 ELSE f[n] + SumTo(f, n - 1)

\* s.sum / ndarray.sum of a vector
Sum(v) == SumTo(v, Len(v))

\* a vector and a grid given cell by cell
Vector(n, f(_)) == Eager([i \in 1..n |-> f(i)])
Grid(r, c, f(_, _)) == Eager([i \in 1..r |-> Eager([j \in 1..c |-> f(i, j)])])

\* ndarray.sum(axis=0): one entry per column
SumAxis0(G) == Vector(Cols(G), LAMBDA d : Sum(Vector(Rows(G), LAMBDA n : G[n][d])))

\* ndarray.sum(axis=1): one entry per row
SumAxis1(G) == Vector(Rows(G), LAMBDA n : Sum(G[n]))

\* G.T
Transpose(G) == Grid(Cols(G), Rows(G), LAMBDA d, n : G[n][d])

\* s.dot(A, B.T) for A of shape (n, K) and B of shape (d, K)
DotT(A, B) ==
    Grid(Rows(A), Rows(B),
         LAMBDA n, d : Sum(Vector(Cols(A), LAMBDA k : A[n][k] * B[d][k])))

\* s.square, elementwise
Square(G) == Grid(Rows(G), Cols(G), LAMBDA n, d : G[n][d] * G[n][d])

\* A * B, elementwise
Times(A, B) == Grid(Rows(A), Cols(A), LAMBDA n, d : A[n][d] * B[n][d])

\* the number of True entries of a boolean vector
CountTrue(v) == Sum(Vector(Len(v), LAMBDA i : IF v[i] THEN 1 ELSE 0))

\* numpy.ma: MaskedArray.sum(axis=0).  Masked cells count as 0; an entry of
\* the result is itself masked when every cell of its column is masked.
MaskedSumAxis0(G, mask) ==
    [data |-> Vector(Cols(G), LAMBDA d :
                  Sum(Vector(Rows(G), LAMBDA n : IF mask[n][d] THEN 0 ELSE G[n][d]))),
     mask |-> Vector(Cols(G), LAMBDA d : \A n \in 1..Rows(G) : mask[n][d])]

\* numpy.ma: MaskedArray.sum(axis=1)
MaskedSumAxis1(G, mask) ==
    [data |-> Vector(Rows(G), LAMBDA n :
                  Sum(Vector(Cols(G), LAMBDA d : IF mask[n][d] THEN 0 ELSE G[n][d]))),
     mask |-> Vector(Rows(G), LAMBDA n : \A d \in 1..Cols(G) : mask[n][d])]

\* biofam.core.utils.dotd(A, A.T) of a masked array A: the diagonal of
\* A A^T, that is for each row of A the sum of its squared cells, with the
\* masked cells left out.
dotd(A, mask) == MaskedSumAxis1(Square(A), mask)

\* numpy.ma: x - y of two masked vectors.  The masks are or-ed; under the
\* mask the result keeps the data of the left operand.
MaskedMinus(x, y) ==
    [data |-> Vector(Len(x.data), LAMBDA i :
                  IF x.mask[i] \/ y.mask[i] THEN x.data[i]
                  ELSE x.data[i] - y.data[i]),
     mask |-> Vector(Len(x.data), LAMBDA i : x.mask[i] \/ y.mask[i])]

\* numpy.ma: x + y of two masked vectors
MaskedPlus(x, y) ==
    [data |-> Vector(Len(x.data), LAMBDA i :
                  IF x.mask[i] \/ y.mask[i] THEN x.data[i]
                  ELSE x.data[i] + y.data[i]),
     mask |-> Vector(Len(x.data), LAMBDA i : x.mask[i] \/ y.mask[i])]

\* a plain ndarray seen as a masked array with nothing masked
Plain(v) == [data |-> v, mask |-> Vector(Len(v), LAMBDA i : FALSE)]

\* ------------------------------------------------------------- scipy
LnTable ==
  <<-693, 0, 405, 693, 916, 1099, 1253, 1386, 1504, 1609, 1705, 1792, 1872, 
    1946, 2015, 2079, 2140, 2197, 2251, 2303, 2351, 2398, 2442, 2485, 2526, 
    2565, 2603, 2639, 2674, 2708, 2741, 2773, 2803, 2833, 2862, 2890, 2918, 
    2944, 2970, 2996, 3020, 3045, 3068, 3091, 3114, 3135, 3157, 3178, 3199, 
    3219, 3239, 3258, 3277, 3296, 3314, 3332, 3350, 3367, 3384, 3401, 3418, 
    3434, 3450, 3466, 3481, 3497, 3512, 3526, 3541, 3555, 3570, 3584, 3597, 
    3611, 3624, 3638, 3651, 3664, 3676, 3689, 3701, 3714, 3726, 3738, 3750, 
    3761, 3773, 3784, 3795, 3807, 3818, 3829, 3839, 3850, 3861, 3871, 3882, 
    3892, 3902, 3912, 3922, 3932, 3942, 3951, 3961, 3970, 3980, 3989, 3998, 
    4007, 4016, 4025, 4034, 4043, 4052, 4060, 4069, 4078, 4086, 4094, 4103, 
    4111, 4119, 4127, 4135, 4143, 4151, 4159, 4167, 4174, 4182, 4190, 4197, 
    4205, 4212, 4220, 4227, 4234, 4241, 4248, 4256, 4263, 4270, 4277, 4284, 
    4290, 4297, 4304, 4311, 4317, 4324, 4331, 4337, 4344, 4350, 4357, 4363, 
    4369, 4376, 4382, 4388, 4394, 4401, 4407, 4413, 4419, 4425, 4431, 4437, 
    4443, 4449, 4454, 4460, 4466, 4472, 4477, 4483, 4489, 4494, 4500, 4505, 
    4511, 4516, 4522, 4527, 4533, 4538, 4543, 4549, 4554, 4559, 4564, 4570, 
    4575, 4580, 4585, 4590, 4595, 4600, 4605, 4610, 4615, 4620, 4625, 4630, 
    4635, 4640, 4644, 4649, 4654, 4659, 4663, 4668, 4673, 4677, 4682, 4687, 
    4691, 4696, 4700, 4705, 4710, 4714, 4718, 4723, 4727, 4732, 4736, 4741, 
    4745, 4749, 4754, 4758, 4762, 4766, 4771, 4775, 4779, 4783, 4787, 4792, 
    4796, 4800, 4804, 4808, 4812, 4816, 4820, 4824, 4828, 4832, 4836, 4840, 
    4844, 4848, 4852, 4856, 4860, 4864, 4868, 4871, 4875, 4879, 4883, 4887, 
    4890, 4894, 4898, 4902, 4905, 4909, 4913, 4916, 4920, 4924, 4927, 4931, 
    4934, 4938, 4942, 4945, 4949, 4952, 4956, 4959, 4963, 4966, 4970, 4973, 
    4977, 4980, 4984, 4987, 4990, 4994, 4997, 5001, 5004, 5007, 5011, 5014, 
    5017, 5021, 5024, 5027, 5030, 5034, 5037, 5040, 5043, 5047, 5050, 5053, 
    5056, 5059, 5063, 5066, 5069, 5072, 5075, 5078, 5081, 5085, 5088, 5091, 
    5094, 5097, 5100, 5103, 5106, 5109, 5112, 5115, 5118, 5121, 5124, 5127, 
    5130, 5133, 5136, 5139, 5142, 5145, 5147, 5150, 5153, 5156, 5159, 5162, 
    5165, 5168, 5170, 5173, 5176, 5179, 5182, 5185, 5187, 5190, 5193, 5196, 
    5198, 5201, 5204, 5207, 5209, 5212, 5215, 5218, 5220, 5223, 5226, 5228, 
    5231, 5234, 5236, 5239, 5242, 5244, 5247, 5250, 5252, 5255, 5257, 5260, 
    5263, 5265, 5268, 5270, 5273, 5276, 5278, 5281, 5283, 5286, 5288, 5291, 
    5293, 5296, 5298>>

GammalnTable ==
  <<572, 0, -121, 0, 285, 693, 1201, 1792, 2454, 3178, 3958, 4787, 5663, 6579, 
    7534, 8525, 9549, 10605, 11689, 12802, 13941, 15104, 16292, 17502, 18734, 
    19987, 21260, 22552, 23863, 25191, 26537, 27899, 29278, 30672, 32081, 33505, 
    34943, 36395, 37861, 39340>>

DigammaTable ==
  <<-1964, -577, 36, 423, 703, 923, 1103, 1256, 1389, 1506, 1611, 1706, 1793, 
    1873, 1947, 2016, 2080, 2141, 2198, 2252, 2303, 2352, 2398, 2443, 2485, 
    2526, 2565, 2603, 2639, 2674, 2708, 2741, 2773, 2804, 2833, 2862, 2891, 
    2918, 2945, 2971>>

\* s.log(b), in thousandths, for b given in halves
Log(b) == IF b \in DOMAIN LnTable THEN LnTable[b] ELSE 0

\* special.gammaln(a), in thousandths, for a given in halves
gammaln(a) == IF a \in DOMAIN GammalnTable THEN GammalnTable[a] ELSE 0

\* special.digamma(a), in thousandths, for a given in halves
digamma(a) == IF a \in DOMAIN DigammaTable THEN DigammaTable[a] ELSE 0

\* ------------------------------------------------------------- the blanket
\* the "SW" in self.markov_blanket test and the four reads after it
Factors(mb) ==
    IF "SW" \in DOMAIN mb
    THEN [W |-> mb["SW"].E, WW |-> mb["SW"].E2, Z |-> mb["Z"].E, ZZ |-> mb["Z"].E2]
    ELSE [W |-> mb["W"].E, WW |-> mb["W"].E2, Z |-> mb["SZ"].E, ZZ |-> mb["SZ"].E2]

\* Y = Y.data; Y[mask] = 0. on the private copy
ZeroFill(Y) ==
    Grid(Rows(Y.data), Cols(Y.data),
         LAMBDA n, d : IF Y.mask[n][d] THEN 0 ELSE Y.data[n][d])

\* as if the update worked on the observation node's own grid, without .copy()
SourceZeroFilledInPlace(mb) ==
    [mb EXCEPT !["Y"].data =
        Grid(Rows(@), Cols(@), LAMBDA n, d : IF mb["Y"].mask[n][d] THEN 0 ELSE @[n][d])]

\* The blanket after Y = getExpectation().copy(); Y = Y.data; Y[mask] = 0.:
\* the zeros are written into the copy, the observation node keeps its grid
SourceAfterZeroFill(mb) == mb

\* Every elementwise operation of the update needs its operands to have
\* the same shape (no grid of the model has an axis of length 1, so numpy
\* never broadcasts one operand over the other): Y * s.dot(Z, W.T), and
\* ma.array(ZZ.dot(WW.T), mask=mask).
TermsShapesAgree(mb) ==
    LET F == Factors(mb) IN
    /\ Rows(mb["Y"].data) = Rows(F.Z)
    /\ Cols(mb["Y"].data) = Rows(F.W)

\* ------------------------------------------------------------- TauD_Node
TauD_term1(Y) == SumAxis0(Square(Y))

TauD_term2(Y, Z, W) ==
    LET v == SumAxis0(Times(Y, DotT(Z, W))) IN Vector(Len(v), LAMBDA d : 2 * v[d])

\* as if term3 were summed without the mask
TauD_term3_unmasked(ZZ, WW, mask) == Plain(SumAxis0(DotT(ZZ, WW)))

TauD_term3(ZZ, WW, mask) == MaskedSumAxis0(DotT(ZZ, WW), mask)

\* as if the sum of squared factor entries were not subtracted
TauD_term4_uncorrected(Z, W, mask) == dotd(DotT(W, Z), Transpose(mask))

TauD_term4(Z, W, mask) ==
    MaskedMinus(dotd(DotT(W, Z), Transpose(mask)),
                MaskedSumAxis0(DotT(Square(Z), Square(W)), mask))

\* as if term4 were subtracted: tmp = term1 - term2 + term3 - term4
TauD_tmp_term4Subtracted(mb) ==
    LET F == Factors(mb)
        mask == mb["Y"].mask
        Y == ZeroFill(mb["Y"])
        term1 == TauD_term1(Y)
        term2 == TauD_term2(Y, F.Z, F.W)
        t12 == Vector(Len(term1), LAMBDA d : term1[d] - term2[d])
    IN MaskedMinus(MaskedPlus(Plain(t12), MaskedSumAxis0(DotT(F.ZZ, F.WW), mask)),
                   MaskedMinus(dotd(DotT(F.W, F.Z), Transpose(mask)),
                               MaskedSumAxis0(DotT(Square(F.Z), Square(F.W)), mask)))

\* tmp = term1 - term2 + term3 + term4, a masked vector over the features
TauD_tmp(mb) ==
    LET F == Factors(mb)
        mask == mb["Y"].mask
        Y == ZeroFill(mb["Y"])
        term1 == TauD_term1(Y)
        term2 == TauD_term2(Y, F.Z, F.W)
        t12 == Vector(Len(term1), LAMBDA d : term1[d] - term2[d])
    IN MaskedPlus(MaskedPlus(Plain(t12), TauD_term3(F.ZZ, F.WW, mask)),
                  TauD_term4(F.Z, F.W, mask))

\* as if the masked cells were not subtracted from the row count
TauD_count_ignoresMask(Y) == Vector(Cols(Y.data), LAMBDA d : Rows(Y.data))

\* Y.shape[0] - mask.sum(axis=0): the non-missing cells of each column
TauD_count(Y) ==
    Vector(Cols(Y.data), LAMBDA d :
        Rows(Y.data) - CountTrue(Vector(Rows(Y.data), LAMBDA n : Y.mask[n][d])))

\* as if the counts were repeated along the other axis
TauD_Qa_otherAxis(Pa, cnt, N) == Grid(N, Len(cnt), LAMBDA n, d : Pa[n][d] + cnt[n])

\* Qa = Pa + s.repeat(count[None,:], self.N, axis=0)/2.
TauD_Qa(Pa, cnt, N) == Grid(N, Len(cnt), LAMBDA n, d : Pa[n][d] + cnt[d])

\* as if the residual were added to the current posterior rate, not to Pb
TauD_Qb_ontoPosterior(Pb, tmp, N) ==
    [data |-> Grid(N, Len(tmp.data), LAMBDA n, d :
                  IF tmp.mask[d] THEN Q.b[n][d] ELSE Q.b[n][d] + tmp.data[d]),
     mask |-> Grid(N, Len(tmp.data), LAMBDA n, d : tmp.mask[d])]

\* Qb = Pb + s.repeat(tmp.copy()[None,:], self.N, axis=0)/2.; the sum of a
\* plain grid and a masked one is masked, with the data of Pb under the mask
TauD_Qb(Pb, tmp, N) ==
    [data |-> Grid(N, Len(tmp.data), LAMBDA n, d :
                  IF tmp.mask[d] THEN Pb[n][d] ELSE Pb[n][d] + tmp.data[d]),
     mask |-> Grid(N, Len(tmp.data), LAMBDA n, d : tmp.mask[d])]

\* Pa + s.repeat(...) adds a (self.N, Y.shape[1]) grid to one of shape dim
TauD_FitsPrior(mb, N) == N = dim[1] /\ Cols(mb["Y"].data) = dim[2]

\* ------------------------------------------------------------- TauN_Node
TauN_term1(Y) == SumAxis1(Square(Y))

TauN_term2(Y, Z, W) ==
    LET v == SumAxis1(Times(Y, DotT(Z, W))) IN Vector(Len(v), LAMBDA n : 2 * v[n])

TauN_term3(ZZ, WW, mask) == MaskedSumAxis1(DotT(ZZ, WW), mask)

TauN_term4(Z, W, mask) ==
    MaskedMinus(dotd(DotT(Z, W), mask),
                MaskedSumAxis1(DotT(Square(Z), Square(W)), mask))

\* tmp = term1 - term2 + term3 + term4, a masked vector over the samples
TauN_tmp(mb) ==
    LET F == Factors(mb)
        mask == mb["Y"].mask
        Y == ZeroFill(mb["Y"])
        term1 == TauN_term1(Y)
        term2 == TauN_term2(Y, F.Z, F.W)
        t12 == Vector(Len(term1), LAMBDA n : term1[n] - term2[n])
    IN MaskedPlus(MaskedPlus(Plain(t12), TauN_term3(F.ZZ, F.WW, mask)),
                  TauN_term4(F.Z, F.W, mask))

\* Y.shape[1] - mask.sum(axis=1): the non-missing cells of each row
TauN_count(Y) ==
    Vector(Rows(Y.data), LAMBDA n : Cols(Y.data) - CountTrue(Y.mask[n]))

\* Qa = Pa + s.repeat(count[:,None], self.D, axis=1)/2.
TauN_Qa(Pa, cnt, D) == Grid(Len(cnt), D, LAMBDA n, d : Pa[n][d] + cnt[n])

\* Qb = Pb + s.repeat(tmp.copy()[:,None], self.D, axis=1)/2.
TauN_Qb(Pb, tmp, D) ==
    [data |-> Grid(Len(tmp.data), D, LAMBDA n, d :
                  IF tmp.mask[n] THEN Pb[n][d] ELSE Pb[n][d] + tmp.data[n]),
     mask |-> Grid(Len(tmp.data), D, LAMBDA n, d : tmp.mask[n])]

\* Pa + s.repeat(...) adds a (Y.shape[0], self.D) grid to one of shape dim
TauN_FitsPrior(mb, D) == Rows(mb["Y"].data) = dim[1] /\ D = dim[2]

\* ------------------------------------------------------------- the base node
\* Gamma expectations of parameters a, b (in halves): E = a/b and
\* lnE = digamma(a) - ln(b), in thousandths
GammaExpectations(a, b) ==
    [E   |-> Grid(Rows(a), Cols(a), LAMBDA n, d :
                 IF b[n][d] > 0 THEN (1000 * a[n][d]) \div b[n][d] ELSE 0),
     lnE |-> Grid(Rows(a), Cols(a), LAMBDA n, d : digamma(a[n][d]) - Log(b[n][d]))]

\* Distribution.setParameters(a=Qa, b=Qb): commits the parameters; the
\* expectations cached with them are recomputed from the new a and b
setParameters(Qa, Qb) == [a |-> Qa, b |-> Qb.data, mask |-> Qb.mask]

\* the value the constructor gives a parameter: broadcast to dim, along the
\* rows for TauD_Node (v indexed by feature) and along the columns for
\* TauN_Node (v indexed by sample)
Broadcast(k, v) ==
    Grid(dim[1], dim[2], LAMBDA n, d : IF k = "TauD" THEN v[d] ELSE v[n])

\* the canonical slice: [0,:] in TauD_Node, [:,0] in TauN_Node
Row0(G) == G[1]
Col0(G) == Vector(Rows(G), LAMBDA n : G[n][1])

\* as if lnGamma(a) were left out of the constant
TauD_lbconst_noGammaln(p) ==
    Sum(Vector(Len(Row0(p.a)), LAMBDA d : Row0(p.a)[d] * Log(Row0(p.b)[d])))

\* precompute: lbconst = sum(a*log(b) - gammaln(a)) over the canonical
\* slice of the prior, in units of 1/2000
TauD_lbconst(p) ==
    Sum(Vector(Len(Row0(p.a)), LAMBDA d :
            Row0(p.a)[d] * Log(Row0(p.b)[d]) - 2 * gammaln(Row0(p.a)[d])))

TauN_lbconst(p) ==
    Sum(Vector(Len(Col0(p.a)), LAMBDA n :
            Col0(p.a)[n] * Log(Col0(p.b)[n]) - 2 * gammaln(Col0(p.a)[n])))

\* s.sum of a masked vector: the masked cells are left out
MaskedTotal(v, mask) == Sum(Vector(Len(v), LAMBDA i : IF mask[i] THEN 0 ELSE v[i]))

\* lb_p - lb_q over the canonical slices (in units of 1/2000).  Qb, E and
\* lnE carry the mask of Qb; a sum all of whose cells are masked is the
\* masked constant, and so is everything computed from it.
ELBO(Pa, Pb, Qa, Qb, Qmask, QE, QlnE, lbc) ==
    LET L == Len(Pa)
        lb_p == lbc + MaskedTotal(Vector(L, LAMBDA i : (Pa[i] - 2) * QlnE[i]), Qmask)
                    - MaskedTotal(Vector(L, LAMBDA i : Pb[i] * QE[i]), Qmask)
        lb_q == MaskedTotal(Vector(L, LAMBDA i : Qa[i] * Log(Qb[i])), Qmask)
                + MaskedTotal(Vector(L, LAMBDA i : (Qa[i] - 2) * QlnE[i]), Qmask)
                - MaskedTotal(Vector(L, LAMBDA i : Qb[i] * QE[i]), Qmask)
                - Sum(Vector(L, LAMBDA i : 2 * gammaln(Qa[i])))
    IN IF \A i \in 1..L : Qmask[i]
       THEN [status |-> "masked", value |-> 0]
       ELSE [status |-> "ok", value |-> lb_p - lb_q]

TauD_ELBO(p, q, e, lbc) ==
    ELBO(Row0(p.a), Row0(p.b), Row0(q.a), Row0(q.b), Row0(q.mask),
         Row0(e.E), Row0(e.lnE), lbc)

TauN_ELBO(p, q, e, lbc) ==
    ELBO(Col0(p.a), Col0(p.b), Col0(q.a), Col0(q.b), Col0(q.mask),
         Col0(e.E), Col0(e.lnE), lbc)

\* ------------------------------------------------------------- construction
\* the prior handed to the constructor, per canonical entry (in halves)
PriorA(i) == 2 * i + 1
PriorB(i) == 2 + i

CanonLen(k) == IF k = "TauD" THEN dim[2] ELSE dim[1]

PriorOf(k) ==
    [a |-> Broadcast(k, Vector(CanonLen(k), LAMBDA i : PriorA(i))),
     b |-> Broadcast(k, Vector(CanonLen(k), LAMBDA i : PriorB(i)))]

NoMask == Grid(dim[1], dim[2], LAMBDA n, d : FALSE)

\* the initial posterior: qa = pa, qb = pb, or another positive pair
PosteriorOf(k, ctor) ==
    IF ctor = "other"
    THEN [a |-> Broadcast(k, Vector(CanonLen(k), LAMBDA i : PriorA(i) + 1)),
          b |-> Broadcast(k, Vector(CanonLen(k), LAMBDA i : PriorB(i) + 3)),
          mask |-> NoMask]
    ELSE [a |-> PriorOf(k).a, b |-> PriorOf(k).b, mask |-> NoMask]

\* the factor grids the collaborators hold when the model is assembled
Z0 == Grid(NumSamples, NumFactors, LAMBDA n, k : ((n + 2 * k) % 3) - 1)
W0 == Grid(NumFeatures, NumFactors, LAMBDA d, k : ((d + k) % 3) - 1)

\* the observations: the reconstruction itself, nothing missing
Y0 == [data |-> DotT(Z0, W0),
       mask |-> Grid(NumSamples, NumFeatures, LAMBDA n, d : FALSE)]

Blanket0(hasSW) ==
    IF hasSW
    THEN [key \in {"Y", "SW", "Z"} |->
            CASE key = "Y" -> Y0
              [] key = "SW" -> [E |-> W0, E2 |-> Square(W0)]
              [] key = "Z" -> [E |-> Z0, E2 |-> Square(Z0)]]
    ELSE [key \in {"Y", "W", "SZ"} |->
            CASE key = "Y" -> Y0
              [] key = "W" -> [E |-> W0, E2 |-> Square(W0)]
              [] key = "SZ" -> [E |-> Z0, E2 |-> Square(Z0)]]

NoCall == [op |-> "none", status |-> "ok", value |-> 0]

\* the expectation override qE of the constructor: any grids
OverrideOf(e, l) ==
    [E   |-> Grid(dim[1], dim[2], LAMBDA n, d : e + 100 * n + 10 * d),
     lnE |-> Grid(dim[1], dim[2], LAMBDA n, d : l - 1000 * n - 300 * d)]

Init ==
    /\ kind \in {"TauD", "TauN"}
    /\ P = PriorOf(kind)
    /\ \E ctor \in {"prior", "override", "other"} :
         /\ Q = PosteriorOf(kind, ctor)
         /\ IF ctor = "override"
            THEN \E e \in OverrideVals, l \in OverrideVals :
                   expectations = OverrideOf(e, l)
            ELSE expectations = GammaExpectations(Q.a, Q.b)
    /\ axisLen = IF kind = "TauD" THEN dim[1] ELSE dim[2]
    /\ lbconst = IF kind = "TauD" THEN TauD_lbconst(P) ELSE TauN_lbconst(P)
    /\ samp = <<>>
    /\ \E hasSW \in BOOLEAN : markov_blanket = Blanket0(hasSW)
    /\ ret = NoCall
    /\ changes = 0

\* ------------------------------------------------------------- the node's operations
TauD_updateParameters ==
    /\ kind = "TauD"
    /\ IF TermsShapesAgree(markov_blanket) /\ TauD_FitsPrior(markov_blanket, axisLen)
       THEN LET Qa == TauD_Qa(P.a, TauD_count(markov_blanket["Y"]), axisLen)
                Qb == TauD_Qb(P.b, TauD_tmp(markov_blanket), axisLen)
            IN /\ Q' = setParameters(Qa, Qb)
               /\ expectations' = GammaExpectations(Qa, Qb.data)
               /\ ret' = [op |-> "updateParameters", status |-> "ok", value |-> 0]
       ELSE /\ ret' = [op |-> "updateParameters", status |-> "ShapeMismatch", value |-> 0]
            /\ UNCHANGED <<Q, expectations>>
    /\ markov_blanket' = SourceAfterZeroFill(markov_blanket)
    /\ UNCHANGED <<kind, P, lbconst, axisLen, samp, changes>>

TauN_updateParameters ==
    /\ kind = "TauN"
    /\ IF TermsShapesAgree(markov_blanket) /\ TauN_FitsPrior(markov_blanket, axisLen)
       THEN LET Qa == TauN_Qa(P.a, TauN_count(markov_blanket["Y"]), axisLen)
                Qb == TauN_Qb(P.b, TauN_tmp(markov_blanket), axisLen)
            IN /\ Q' = setParameters(Qa, Qb)
               /\ expectations' = GammaExpectations(Qa, Qb.data)
               /\ ret' = [op |-> "updateParameters", status |-> "ok", value |-> 0]
       ELSE /\ ret' = [op |-> "updateParameters", status |-> "ShapeMismatch", value |-> 0]
            /\ UNCHANGED <<Q, expectations>>
    /\ markov_blanket' = SourceAfterZeroFill(markov_blanket)
    /\ UNCHANGED <<kind, P, lbconst, axisLen, samp, changes>>

TauD_calculateELBO ==
    /\ kind = "TauD"
    /\ LET r == TauD_ELBO(P, Q, expectations, lbconst)
       IN ret' = [op |-> "calculateELBO", status |-> r.status, value |-> r.value]
    /\ UNCHANGED <<kind, P, Q, expectations, lbconst, axisLen, samp,
                   markov_blanket, changes>>

TauN_calculateELBO ==
    /\ kind = "TauN"
    /\ LET r == TauN_ELBO(P, Q, expectations, lbconst)
       IN ret' = [op |-> "calculateELBO", status |-> r.status, value |-> r.value]
    /\ UNCHANGED <<kind, P, Q, expectations, lbconst, axisLen, samp,
                   markov_blanket, changes>>

\* sample: a draw from Gamma(a = P.a[0,:], b = P.b[0,:]) of shape (dim[1], 1)
TauD_sample ==
    /\ kind = "TauD"
    /\ samp' \in [1..dim[2] -> SampleVals]
    /\ ret' = [op |-> "sample", status |-> "ok", value |-> 0]
    /\ UNCHANGED <<kind, P, Q, expectations, lbconst, axisLen, markov_blanket,
                   changes>>

\* sample: a draw from Gamma(a = P.a[:,0], b = P.b[:,0]) of shape (dim[0], 1)
TauN_sample ==
    /\ kind = "TauN"
    /\ samp' \in [1..dim[1] -> SampleVals]
    /\ ret' = [op |-> "sample", status |-> "ok", value |-> 0]
    /\ UNCHANGED <<kind, P, Q, expectations, lbconst, axisLen, markov_blanket,
                   changes>>

\* ------------------------------------------------------------- the collaborators
\* What the rest of the model does between two calls on the node: the
\* observation node and the factor nodes are updated by their own owners.
NodeUnchanged == UNCHANGED <<kind, P, Q, expectations, lbconst, axisLen, samp>>

SetCell(G, i, j, v) == [G EXCEPT ![i][j] = v]

\* the observation node holds another value in one cell (under the mask or not)
Y_setValue ==
    /\ changes < MaxChanges
    /\ \E n \in 1..Rows(markov_blanket["Y"].data),
          d \in 1..Cols(markov_blanket["Y"].data),
          v \in YVals :
         /\ v # markov_blanket["Y"].data[n][d]
         /\ markov_blanket' = [markov_blanket EXCEPT !["Y"].data = SetCell(@, n, d, v)]
    /\ changes' = changes + 1
    /\ ret' = NoCall
    /\ NodeUnchanged

\* one cell becomes missing, or is observed again
Y_setMask ==
    /\ changes < MaxChanges
    /\ \E n \in 1..Rows(markov_blanket["Y"].data),
          d \in 1..Cols(markov_blanket["Y"].data) :
         markov_blanket' = [markov_blanket EXCEPT
                               !["Y"].mask = SetCell(@, n, d, ~@[n][d])]
    /\ changes' = changes + 1
    /\ ret' = NoCall
    /\ NodeUnchanged

\* a whole feature (column) or a whole sample (row) is missing
Y_maskLine ==
    /\ changes < MaxChanges
    /\ \/ \E d0 \in 1..Cols(markov_blanket["Y"].data) :
            markov_blanket' = [markov_blanket EXCEPT !["Y"].mask =
                Grid(Rows(@), Cols(@), LAMBDA n, d : (d = d0) \/ @[n][d])]
       \/ \E n0 \in 1..Rows(markov_blanket["Y"].data) :
            markov_blanket' = [markov_blanket EXCEPT !["Y"].mask =
                Grid(Rows(@), Cols(@), LAMBDA n, d : (n = n0) \/ @[n][d])]
    /\ changes' = changes + 1
    /\ ret' = NoCall
    /\ NodeUnchanged

\* a factor node is updated: one cell gets other first and second moments
Factor_update ==
    /\ changes < MaxChanges
    /\ \E key \in DOMAIN markov_blanket \ {"Y"} :
       \E i \in 1..Rows(markov_blanket[key].E), k \in 1..NumFactors,
          m \in FactorMoments :
         /\ m # <<markov_blanket[key].E[i][k], markov_blanket[key].E2[i][k]>>
         /\ markov_blanket' = [markov_blanket EXCEPT
                                  ![key].E = SetCell(@, i, k, m[1]),
                                  ![key].E2 = SetCell(@, i, k, m[2])]
    /\ changes' = changes + 1
    /\ ret' = NoCall
    /\ NodeUnchanged

AppendRow(G) == Append(G, G[Len(G)])
AppendCol(G) == [n \in 1..Rows(G) |-> Append(G[n], G[n][Cols(G)])]

ZKey(mb) == IF "SW" \in DOMAIN mb THEN "Z" ELSE "SZ"
WKey(mb) == IF "SW" \in DOMAIN mb THEN "SW" ELSE "W"

\* the node is wired to a data set with one more sample than its dim: the
\* observation grid gets a row, and so does the score node when the blanket
\* is assembled consistently
Blanket_addSample ==
    /\ changes < MaxChanges
    /\ Rows(markov_blanket["Y"].data) = dim[1]
    /\ \E consistent \in BOOLEAN :
         LET zk == ZKey(markov_blanket)
             y == [data |-> AppendRow(markov_blanket["Y"].data),
                   mask |-> AppendRow(markov_blanket["Y"].mask)]
             z == [E |-> AppendRow(markov_blanket[zk].E),
                   E2 |-> AppendRow(markov_blanket[zk].E2)]
         IN markov_blanket' =
              IF consistent
              THEN [markov_blanket EXCEPT !["Y"] = y, ![zk] = z]
              ELSE [markov_blanket EXCEPT !["Y"] = y]
    /\ changes' = changes + 1
    /\ ret' = NoCall
    /\ NodeUnchanged

\* the same along the features: a column of the observation grid, a row of
\* the loading node
Blanket_addFeature ==
    /\ changes < MaxChanges
    /\ Cols(markov_blanket["Y"].data) = dim[2]
    /\ \E consistent \in BOOLEAN :
         LET wk == WKey(markov_blanket)
             y == [data |-> AppendCol(markov_blanket["Y"].data),
                   mask |-> AppendCol(markov_blanket["Y"].mask)]
             w == [E |-> AppendRow(markov_blanket[wk].E),
                   E2 |-> AppendRow(markov_blanket[wk].E2)]
         IN markov_blanket' =
              IF consistent
              THEN [markov_blanket EXCEPT !["Y"] = y, ![wk] = w]
              ELSE [markov_blanket EXCEPT !["Y"] = y]
    /\ changes' = changes + 1
    /\ ret' = NoCall
    /\ NodeUnchanged

Next ==
    \/ TauD_updateParameters
    \/ TauN_updateParameters
    \/ TauD_calculateELBO
    \/ TauN_calculateELBO
    \/ TauD_sample
    \/ TauN_sample
    \/ Y_setValue
    \/ Y_setMask
    \/ Y_maskLine
    \/ Factor_update
    \/ Blanket_addSample
    \/ Blanket_addFeature

Spec == Init /\ [][Next]_vars

\* ------------------------------------------------------------- reference quantities
\* What the claims speak of, written out cell by cell from the blanket,
\* without the four-term decomposition of the update.
RefW(mb) == IF "SW" \in DOMAIN mb THEN mb["SW"] ELSE mb["W"]
RefZ(mb) == IF "SW" \in DOMAIN mb THEN mb["Z"] ELSE mb["SZ"]
YRows(mb) == 1..Len(mb["Y"].data)
YCols(mb) == 1..Len(mb["Y"].data[1])
Missing(mb, n, d) == mb["Y"].mask[n][d]

\* SUM_k Z[n,k] W[d,k]
Recon(mb, n, d) ==
    Sum(Vector(NumFactors, LAMBDA k : RefZ(mb).E[n][k] * RefW(mb).E[d][k]))

\* SUM_k ZZ[n,k] WW[d,k] + SUM_{k # k'} Z[n,k] W[d,k] Z[n,k'] W[d,k']
ReconSq(mb, n, d) ==
    Sum(Vector(NumFactors, LAMBDA k : RefZ(mb).E2[n][k] * RefW(mb).E2[d][k]))
    + Sum(Vector(NumFactors, LAMBDA k : Sum(Vector(NumFactors, LAMBDA kk :
          IF k = kk THEN 0
          ELSE RefZ(mb).E[n][k] * RefW(mb).E[d][k]
               * RefZ(mb).E[n][kk] * RefW(mb).E[d][kk]))))

\* Y[n,d]^2 - 2 Y[n,d] SUM_k Z W + E[(SUM_k Z W)^2]
CellResidual(mb, n, d) ==
    mb["Y"].data[n][d] * mb["Y"].data[n][d]
    - 2 * mb["Y"].data[n][d] * Recon(mb, n, d) + ReconSq(mb, n, d)

\* the same summed over the observed cells of column d, of row n
ColumnResidual(mb, d) ==
    Sum(Vector(Len(mb["Y"].data), LAMBDA n :
          IF Missing(mb, n, d) THEN 0 ELSE CellResidual(mb, n, d)))
RowResidual(mb, n) ==
    Sum(Vector(Len(mb["Y"].data[1]), LAMBDA d :
          IF Missing(mb, n, d) THEN 0 ELSE CellResidual(mb, n, d)))

\* SUM (Y - SUM_k Z W)^2 over a whole column, a whole row
ColumnSquaredError(mb, d) ==
    Sum(Vector(Len(mb["Y"].data), LAMBDA n :
          (mb["Y"].data[n][d] - Recon(mb, n, d)) * (mb["Y"].data[n][d] - Recon(mb, n, d))))
RowSquaredError(mb, n) ==
    Sum(Vector(Len(mb["Y"].data[1]), LAMBDA d :
          (mb["Y"].data[n][d] - Recon(mb, n, d)) * (mb["Y"].data[n][d] - Recon(mb, n, d))))

NothingMissing(mb) == \A n \in YRows(mb), d \in YCols(mb) : ~Missing(mb, n, d)
MomentsAreSquares(mb) ==
    /\ RefZ(mb).E2 = Square(RefZ(mb).E)
    /\ RefW(mb).E2 = Square(RefW(mb).E)
YIsReconstruction(mb) ==
    \A n \in YRows(mb), d \in YCols(mb) : mb["Y"].data[n][d] = Recon(mb, n, d)

\* the state right after an updateParameters that committed: the blanket
\* of the state is the one the call read
Updated == ret.op = "updateParameters" /\ ret.status = "ok"
Cells == (1..dim[1]) \X (1..dim[2])

\* the residual the last update added (halved) to Pb, per cell of Q
Added(n, d) == Q.b[n][d] - P.b[n][d]
\* the entry of the blanket the cell (n, d) of Q aggregates: column d for
\* TauD_Node, row n for TauN_Node
LineResidual(n, d) ==
    IF kind = "TauD" THEN ColumnResidual(markov_blanket, d)
    ELSE RowResidual(markov_blanket, n)
LineSquaredError(n, d) ==
    IF kind = "TauD" THEN ColumnSquaredError(markov_blanket, d)
    ELSE RowSquaredError(markov_blanket, n)
LineObserved(n, d) ==
    IF kind = "TauD"
    THEN Cardinality({m \in YRows(markov_blanket) : ~Missing(markov_blanket, m, d)})
    ELSE Cardinality({e \in YCols(markov_blanket) : ~Missing(markov_blanket, n, e)})

\* ------------------------------------------------------------- claims
\* C1. Residual exactness without missing data: when no cell of Y is masked,
\* the residual the update adds (halved) to Pb is, for each feature d
\* (TauD_Node) or sample n (TauN_Node), the sum over the line of
\* Y^2 - 2 Y SUM_k ZW + SUM_k ZZ WW + SUM_{k # k'} ZW ZW; with E2 = E^2 it is
\* the sum of (Y - SUM_k ZW)^2, and with Y the reconstruction it is 0 and
\* Qb = Pb.
C1_ResidualExact ==
    (Updated /\ NothingMissing(markov_blanket)) =>
        \A c \in Cells :
            /\ ~Q.mask[c[1]][c[2]]
            /\ Added(c[1], c[2]) = LineResidual(c[1], c[2])
            /\ MomentsAreSquares(markov_blanket) =>
                 Added(c[1], c[2]) = LineSquaredError(c[1], c[2])
            /\ (MomentsAreSquares(markov_blanket) /\ YIsReconstruction(markov_blanket)) =>
                 Q.b[c[1]][c[2]] = P.b[c[1]][c[2]]

\* a committed update on complete data whose factors have variance and
\* whose residual is not zero
C1_Witness ==
    /\ Updated /\ NothingMissing(markov_blanket)
    /\ ~MomentsAreSquares(markov_blanket)
    /\ \E c \in Cells : Added(c[1], c[2]) > 0

C4_CountConsistent ==
    Updated => \A c \in Cells :
        Q.a[c[1]][c[2]] - P.a[c[1]][c[2]] = LineObserved(c[1], c[2])

\* a committed update on a grid where two lines have different counts
C4_Witness ==
    /\ Updated
    /\ \E c1 \in Cells, c2 \in Cells :
         LineObserved(c1[1], c1[2]) # LineObserved(c2[1], c2[2])

SharedAlongAxis(g) ==
    /\ Len(g) = dim[1]
    /\ \A n \in 1..dim[1] : Len(g[n]) = dim[2]
    /\ \A c \in Cells :
         IF kind = "TauD" THEN g[c[1]][c[2]] = g[1][c[2]]
         ELSE g[c[1]][c[2]] = g[c[1]][1]

\* C5. Broadcast invariant: all rows of Q.a and Q.b are the same (TauD_Node),
\* all columns are the same (TauN_Node), and Q keeps the shape dim.
C5_Broadcast == SharedAlongAxis(Q.a) /\ SharedAlongAxis(Q.b) /\ SharedAlongAxis(Q.mask)

\* a committed update after which Q differs between two lines
C5_Witness ==
    /\ Updated
    /\ \E c1 \in Cells, c2 \in Cells :
         Added(c1[1], c1[2]) # Added(c2[1], c2[2])

\* C7. Positivity: with positive priors and second moments no smaller than
\* the squared first moments, no update commits an entry of Q.a or Q.b
\* that is zero or negative.
C7_Positive ==
    \A c \in Cells : Q.a[c[1]][c[2]] > 0 /\ Q.b[c[1]][c[2]] > 0

\* a committed update whose residual is positive on one line and zero on
\* another
C7_Witness ==
    /\ Updated
    /\ \E c1 \in Cells, c2 \in Cells :
         Added(c1[1], c1[2]) > 0 /\ Added(c2[1], c2[2]) = 0

\* the cells of Q that aggregate a line of Y with no observed cell
LineAllMissing(n, d) ==
    IF kind = "TauD"
    THEN d \in YCols(markov_blanket)
         /\ \A m \in YRows(markov_blanket) : Missing(markov_blanket, m, d)
    ELSE n \in YRows(markov_blanket)
         /\ \A e \in YCols(markov_blanket) : Missing(markov_blanket, n, e)

\* C2. Degenerate column/row: after the update every cell of Q on a fully
\* masked column (TauD_Node) or row (TauN_Node) holds the prior: Qa = Pa and
\* Qb = Pb, a plain number equal to the prior rate.
C2_DegenerateLine ==
    Updated => \A c \in Cells :
        LineAllMissing(c[1], c[2]) =>
            /\ Q.a[c[1]][c[2]] = P.a[c[1]][c[2]]
            /\ ~Q.mask[c[1]][c[2]]
            /\ Q.b[c[1]][c[2]] = P.b[c[1]][c[2]]

\* C6. ELBO cancels at the prior: when Q.a = P.a and Q.b = P.b on the
\* canonical slice, calculateELBO returns 0 whatever the cached expectations.
QIsPriorOnSlice ==
    IF kind = "TauD"
    THEN Row0(Q.a) = Row0(P.a) /\ Row0(Q.b) = Row0(P.b)
         /\ \A d \in 1..dim[2] : ~Q.mask[1][d]
    ELSE Col0(Q.a) = Col0(P.a) /\ Col0(Q.b) = Col0(P.b)
         /\ \A n \in 1..dim[1] : ~Q.mask[n][1]

C6_ELBOZeroAtPrior ==
    (ret.op = "calculateELBO" /\ QIsPriorOnSlice) =>
        (ret.status = "ok" /\ ret.value = 0)

\* calculateELBO has returned on a node whose posterior is the prior and
\* whose cached expectations are an override, not those of Q
C6_Witness ==
    /\ ret.op = "calculateELBO" /\ QIsPriorOnSlice
    /\ expectations # GammaExpectations(Q.a, Q.b)

\* C8. Shape mismatch is surfaced at the update: when the observation grid
\* does not have self.N rows (TauD_Node), self.D columns (TauN_Node), the
\* update ends in a shape-mismatch error and commits nothing.
CanonicalAxisDiffers ==
    IF kind = "TauD" THEN Len(markov_blanket["Y"].data) # axisLen
    ELSE Len(markov_blanket["Y"].data[1]) # axisLen

C8_MismatchSurfaced ==
    (ret.op = "updateParameters" /\ CanonicalAxisDiffers) =>
        ret.status = "ShapeMismatch"

\* C9. Frame: Q and the cached expectations change only in updateParameters
\* steps; P and lbconst never change; no operation of the node changes the
\* observation node's grid and mask or the factor nodes' E and E2.
C9_Frame ==
    [][ /\ (Q' # Q \/ expectations' # expectations) => ret'.op = "updateParameters"
        /\ P' = P /\ lbconst' = lbconst
        /\ ret'.op # "none" => markov_blanket' = markov_blanket ]_vars

\* a committed update that read a masked cell with a non-zero value under
\* the mask: the value is still there
C9_Witness ==
    /\ Updated
    /\ \E n \in YRows(markov_blanket), d \in YCols(markov_blanket) :
         Missing(markov_blanket, n, d) /\ markov_blanket["Y"].data[n][d] # 0

\* C10. Fresh reads and history independence: the Q an update commits is
\* determined by P and by what Y and the active factor pair hold at the
\* call (a change made since the last update is reflected), and not by the
\* previous Q: a second update with unchanged collaborators commits the
\* same Q.
C10_FreshReads ==
    [][ (ret'.op = "updateParameters" /\ ret'.status = "ok") =>
          /\ \A c \in Cells :
               /\ Q'.a[c[1]][c[2]] = P.a[c[1]][c[2]]
                    + (IF kind = "TauD"
                       THEN Cardinality({m \in YRows(markov_blanket) :
                                           ~Missing(markov_blanket, m, c[2])})
                       ELSE Cardinality({e \in YCols(markov_blanket) :
                                           ~Missing(markov_blanket, c[1], e)}))
               /\ Q'.b[c[1]][c[2]] = P.b[c[1]][c[2]]
                    + (IF kind = "TauD" THEN ColumnResidual(markov_blanket, c[2])
                       ELSE RowResidual(markov_blanket, c[1]))
          /\ Updated => Q' = Q ]_vars

\* a committed update that follows a collaborator change and whose Q is
\* neither the previous one nor the one of the assembled blanket
C10_Witness ==
    /\ Updated /\ changes > 0
    /\ \E c \in Cells : Added(c[1], c[2]) # 0

====
